---- MODULE Spec2Model ----
(***************************************************************************)
(* Model of senslify/sockets.py: the room registry (app["rooms"]), the     *)
(* per-connection WebSocket handler ws_handler, the broadcaster message()  *)
(* and the shutdown handler socket_shutdown_handler.                       *)
(*                                                                         *)
(* All coroutines run on one asyncio event loop: the code between two      *)
(* suspending awaits is one atomic action.  The suspending awaits are      *)
(* ws.send_str inside message(), ws.close(), the database queries and the  *)
(* wait for the next inbound frame.                                        *)
(*                                                                         *)
(* A Python dict is modelled as the sequence of its entries in insertion   *)
(* order; a dict iterator as a position plus the size the dict had when    *)
(* the iterator was created (CPython raises RuntimeError on the next step  *)
(* when the size differs).                                                 *)
(***************************************************************************)
EXTENDS Integers, Sequences, FiniteSets, TLC

\* ---------------------------------------------------------------- bounds
NumSessions == 2
NumSensors == 2
MaxFrames == 3
NumPublishes == 1
MaxOrderFrames == 2
NumOverlap == 2

Sessions == 1..NumSessions
GroupIds == {1}
SensorIds == 5..(4 + NumSensors)
RoomKeys == GroupIds \X SensorIds
RTypes == {0, 3}
StreamTypes == {3}
Pubs == 1..NumPublishes
\* the calls of message() of the overlapping-publish specification, and all
\* the calls the state has room for
OverlapPubs == 1..NumOverlap
PubIds == Pubs \cup OverlapPubs

\* the local names groupid / sensorid of ws_handler before any assignment
Unbound == <<>>

\* ------------------------------------------------------- dict primitives
RECURSIVE IndexOfKey(_, _, _)
IndexOfKey(rs, key, i) ==
    IF i > Len(rs) THEN 0
    ELSE IF rs[i].key = key THEN i
    ELSE IndexOfKey(rs, key, i + 1)

RECURSIVE IndexOfWs(_, _, _)
IndexOfWs(d, ws, i) ==
    IF i > Len(d) THEN 0
    ELSE IF d[i].ws = ws THEN i
    ELSE IndexOfWs(d, ws, i + 1)

RemoveAt(d, i) == [j \in 1..(Len(d) - 1) |-> IF j < i THEN d[j] ELSE d[j + 1]]

\* rooms[(groupid, sensorid)] for a key that exists
RoomDict(rs, key) == rs[IndexOfKey(rs, key, 1)].d

\* faulty variant of SetRoom: the registry is rebuilt with the one key
SetRoom_DropsOthers(rs, key, d) == <<[key |-> key, d |-> d]>>

\* rooms[key] = value : replaces the value in place or appends a new key
SetRoom(rs, key, d) ==
    IF IndexOfKey(rs, key, 1) = 0
    THEN Append(rs, [key |-> key, d |-> d])
    ELSE [rs EXCEPT ![IndexOfKey(rs, key, 1)].d = d]

\* Python's == between an int and a tuple key of rooms
IntEqualsKey(n, key) == FALSE

\* faulty variant of SensorInRooms: the sensor id is looked for in the
\* sensor component of the keys
SensorInRooms_ByComponent(rs, sensorid) ==
    \E i \in 1..Len(rs) : rs[i].key[2] = sensorid

\* "sensorid in rooms": membership of the bare integer among the tuple keys
SensorInRooms(rs, sensorid) ==
    \E i \in 1..Len(rs) : IntEqualsKey(sensorid, rs[i].key)

\* ------------------------------------------------- registry (sockets.py)
_does_room_exist(rs, groupid, sensorid) ==
    IF ~(IndexOfKey(rs, <<groupid, sensorid>>, 1) # 0) THEN FALSE ELSE TRUE

\* faulty variant of _does_ws_exist: the socket is not looked up, the
\* answer is for the room only
_does_ws_exist_RoomOnly(rs, groupid, sensorid, ws) ==
    _does_room_exist(rs, groupid, sensorid)

_does_ws_exist(rs, groupid, sensorid, ws) ==
    IF ~_does_room_exist(rs, groupid, sensorid) THEN FALSE
    ELSE IF IndexOfWs(RoomDict(rs, <<groupid, sensorid>>), ws, 1) = 0 THEN FALSE
    ELSE TRUE

\* faulty variant of _leave: a room whose last socket left is deleted
_leave_DropsEmptyRoom(rs, groupid, sensorid, ws) ==
    IF ~_does_ws_exist(rs, groupid, sensorid, ws)
    THEN [rooms |-> rs, raised |-> FALSE]
    ELSE LET key == <<groupid, sensorid>>
             d == RemoveAt(RoomDict(rs, key), IndexOfWs(RoomDict(rs, key), ws, 1))
         IN [rooms |-> IF d = <<>>
                       THEN RemoveAt(rs, IndexOfKey(rs, key, 1))
                       ELSE SetRoom(rs, key, d),
             raised |-> FALSE]

\* the registry after _leave, and whether _leave raised (the del of line 70
\* raises KeyError for a socket that is not in the dict)
_leave(rs, groupid, sensorid, ws) ==
    IF ~_does_ws_exist(rs, groupid, sensorid, ws)
    THEN [rooms |-> rs, raised |-> FALSE]
    ELSE LET key == <<groupid, sensorid>>
             d == RoomDict(rs, key)
         IN IF IndexOfWs(d, ws, 1) = 0
            THEN [rooms |-> rs, raised |-> TRUE]
            ELSE [rooms |-> SetRoom(rs, key, RemoveAt(d, IndexOfWs(d, ws, 1))),
                  raised |-> FALSE]

\* faulty variant of _join: a session that is already in the room is
\* refused
_join_RefusesMember(rs, groupid, sensorid, ws) ==
    LET key == <<groupid, sensorid>>
        r1 == SetRoom(rs, key, <<>>)
    IN IF IndexOfKey(rs, key, 1) # 0 /\ IndexOfWs(RoomDict(rs, key), ws, 1) # 0
       THEN [rooms |-> rs, result |-> FALSE]
       ELSE [rooms |-> SetRoom(r1, key, <<[ws |-> ws, rtype |-> 0]>>),
             result |-> TRUE]

\* the registry after _join and the value _join returns
_join(rs, groupid, sensorid, ws) ==
    LET key == <<groupid, sensorid>>
        r1 == IF ~SensorInRooms(rs, sensorid) THEN SetRoom(rs, key, <<>>) ELSE rs
        d1 == RoomDict(r1, key)
        r2 == IF IndexOfWs(d1, ws, 1) = 0
              THEN SetRoom(r1, key, Append(d1, [ws |-> ws, rtype |-> 0]))
              ELSE r1
    IN IF SensorInRooms(rs, sensorid) /\ IndexOfKey(rs, key, 1) = 0
       THEN [rooms |-> rs, result |-> FALSE]      \* KeyError caught by except
       ELSE [rooms |-> r2, result |-> TRUE]

\* faulty variant of _change_stream: the filter is assigned without the
\* membership test, which inserts a socket that is not in the room
_change_stream_NoTest(rs, groupid, sensorid, ws, rtypeid) ==
    IF ~_does_room_exist(rs, groupid, sensorid)
    THEN [rooms |-> rs, result |-> FALSE]
    ELSE LET key == <<groupid, sensorid>>
             d == RoomDict(rs, key)
             i == IndexOfWs(d, ws, 1)
         IN [rooms |-> SetRoom(rs, key,
                         IF i = 0 THEN Append(d, [ws |-> ws, rtype |-> rtypeid])
                         ELSE [d EXCEPT ![i].rtype = rtypeid]),
             result |-> TRUE]

\* the registry after _change_stream and the value it returns
_change_stream(rs, groupid, sensorid, ws, rtypeid) ==
    IF ~_does_ws_exist(rs, groupid, sensorid, ws)
    THEN [rooms |-> rs, result |-> FALSE]
    ELSE LET key == <<groupid, sensorid>>
             d == RoomDict(rs, key)
             i == IndexOfWs(d, ws, 1)
         IN [rooms |-> SetRoom(rs, key, [d EXCEPT ![i].rtype = rtypeid]),
             result |-> TRUE]

\* ------------------------------------------------------------------ state
VARIABLES
    rooms,     \* app["rooms"]: sequence of [key, d], d a sequence of [ws, rtype]
    hpc,       \* per session: where its ws_handler coroutine stands
    loc,       \* per session: ws_handler's locals (groupid, sensorid), or Unbound
    closed,    \* per session: ws.closed
    out,       \* per session: the frames written to it by send_str, in order
    frames,    \* number of TEXT frames the handlers have taken so far
    pend,      \* per session: the command whose database query is in flight,
               \* then how the last query ended ("returned" or "DBError")
    js,        \* per session: the request decoded from the last TEXT frame
    pub,       \* per call of message(): its position and its dict iterator
    sd,        \* socket_shutdown_handler: its position, its two iterators and
               \* the open sockets that were in a room when it started
    nclose,    \* per session: number of ws.close() calls made by the shutdown handler
    nleave,    \* per session: number of calls of _leave made by its ws_handler
    wsexc      \* per session: ws.exception() is set (an ERROR message came)

vars == <<rooms, hpc, loc, closed, out, frames, pend, js, pub, sd, nclose, nleave,
          wsexc>>

\* an iterator over the dict of room `key`.  While live, it reads the dict
\* that rooms holds under `key`; once _join has bound a new dict to the key
\* the iterator keeps the old object, which nothing can reach any more: d.
NoIter == [key |-> <<>>, live |-> FALSE, d |-> <<>>, pos |-> 0, used |-> 0]

NewIter(rs, key, pos) ==
    [key |-> key, live |-> TRUE, d |-> <<>>, pos |-> pos,
     used |-> Len(RoomDict(rs, key))]

IterDict(rs, it) == IF it.live THEN RoomDict(rs, it.key) ELSE it.d

\* the dict object under `key` was replaced: live iterators keep the old one
Detach(rs, it, key) ==
    IF it.live /\ it.key = key
    THEN [it EXCEPT !.live = FALSE, !.d = RoomDict(rs, key)]
    ELSE it

\* _join binds a fresh dict to the key each time its room test fails
JoinRebinds(rs, key) ==
    ~SensorInRooms(rs, key[2]) /\ IndexOfKey(rs, key, 1) # 0

DetachPubs(rs, key) ==
    [p \in PubIds |-> [pub[p] EXCEPT !.it = Detach(rs, pub[p].it, key)]]

DetachSd(rs, key) == [sd EXCEPT !.it = Detach(rs, sd.it, key)]

\* ws.send_str raises on a connection that was closed or whose handler ended
SendFails(ws) == closed[ws] \/ hpc[ws] \in {"done", "crashed"}

Send(ws, frame) == [out EXCEPT ![ws] = Append(@, frame)]

InRoom(rs, key, ws) ==
    /\ IndexOfKey(rs, key, 1) # 0
    /\ IndexOfWs(RoomDict(rs, key), ws, 1) # 0

MemberOf(rs, ws) == {k \in RoomKeys : InRoom(rs, k, ws)}

\* js before the first frame, and for a frame that is not JSON
NoRequest == [cmd |-> "", key |-> <<>>, rtypeid |-> 0]

Request(cmd, key, rtypeid) == [cmd |-> cmd, key |-> key, rtypeid |-> rtypeid]

Init ==
    /\ rooms = <<>>
    /\ hpc = [w \in Sessions |-> "new"]
    /\ loc = [w \in Sessions |-> Unbound]
    /\ closed = [w \in Sessions |-> FALSE]
    /\ out = [w \in Sessions |-> <<>>]
    /\ frames = 0
    /\ pend = [w \in Sessions |-> "none"]
    /\ js = [w \in Sessions |-> NoRequest]
    /\ pub = [p \in PubIds |-> [pc |-> "idle", seq |-> 0, key |-> <<>>,
                                 rtypeid |-> 0, ws |-> 0,
                                 err |-> "none", it |-> NoIter]]
    /\ sd = [pc |-> "idle", err |-> "none", opos |-> 0, oused |-> 0,
             atstart |-> {}, it |-> NoIter]
    /\ nclose = [w \in Sessions |-> 0]
    /\ nleave = [w \in Sessions |-> 0]
    /\ wsexc = [w \in Sessions |-> FALSE]

\* ------------------------------------------------------------ ws_handler
\* lines 152-155: the WebSocket is prepared and the receive loop starts
Connect(ws) ==
    /\ hpc[ws] = "new"
    /\ sd.pc = "idle"
    /\ hpc' = [hpc EXCEPT ![ws] = "recv"]
    /\ UNCHANGED <<rooms, loc, closed, out, frames, pend, js, pub, sd, nclose, nleave, wsexc>>

\* the loop is waiting for a frame and a TEXT frame can still arrive
CanReceive(ws) ==
    /\ hpc[ws] = "recv"
    /\ ~closed[ws]
    /\ frames < MaxFrames

\* faulty variant of RecvMalformed: the error branch leaves the receive
\* loop (break for continue)
RecvMalformed_Break(ws, why) ==
    /\ CanReceive(ws)
    /\ frames' = frames + 1
    /\ js' = [js EXCEPT ![ws] = IF why = "json" THEN NoRequest
                                 ELSE Request("<rejected>", <<>>, 0)]
    /\ out' = Send(ws, [cmd |-> "RESP_ERROR", error |-> why])
    /\ hpc' = [hpc EXCEPT ![ws] = "done"]
    /\ UNCHANGED <<rooms, loc, closed, pend, pub, sd, nclose, nleave, wsexc>>

\* lines 166-179: the frame is not JSON, or verify_ws_request rejects it
RecvMalformed(ws, why) ==
    /\ CanReceive(ws)
    /\ frames' = frames + 1
    /\ js' = [js EXCEPT ![ws] = IF why = "json" THEN NoRequest
                                 ELSE Request("<rejected>", <<>>, 0)]
    /\ out' = Send(ws, [cmd |-> "RESP_ERROR", error |-> why])
    /\ UNCHANGED <<rooms, hpc, loc, closed, pend, pub, sd, nclose, nleave, wsexc>>

\* lines 184-190
RecvJoin(ws, key) ==
    /\ CanReceive(ws)
    /\ frames' = frames + 1
    /\ js' = [js EXCEPT ![ws] = Request("RQST_JOIN", key, 0)]
    /\ loc' = [loc EXCEPT ![ws] = key]
    /\ LET j == _join(rooms, key[1], key[2], ws)
       IN /\ rooms' = j.rooms
          /\ out' = Send(ws, [cmd |-> "RESP_JOIN", join_status |-> j.result])
    /\ pub' = IF JoinRebinds(rooms, key) THEN DetachPubs(rooms, key) ELSE pub
    /\ sd' = IF JoinRebinds(rooms, key) THEN DetachSd(rooms, key) ELSE sd
    /\ UNCHANGED <<hpc, closed, pend, nclose, nleave, wsexc>>

\* lines 192-196: _leave, then the handler is suspended in ws.close()
RecvClose(ws, key) ==
    /\ CanReceive(ws)
    /\ frames' = frames + 1
    /\ js' = [js EXCEPT ![ws] = Request("RQST_CLOSE", key, 0)]
    /\ loc' = [loc EXCEPT ![ws] = key]
    /\ LET l == _leave(rooms, key[1], key[2], ws)
       IN /\ rooms' = l.rooms
          /\ closed' = [closed EXCEPT ![ws] = ~l.raised]
          /\ hpc' = [hpc EXCEPT ![ws] = IF l.raised THEN "crashed" ELSE "closing"]
    /\ nleave' = [nleave EXCEPT ![ws] = @ + 1]
    /\ UNCHANGED <<out, pend, pub, sd, nclose, wsexc>>

\* line 264, reached when the receive loop has ended
FinalLeave(ws) ==
    IF loc[ws] = Unbound
    THEN /\ hpc' = [hpc EXCEPT ![ws] = "crashed"]    \* UnboundLocalError
         /\ rooms' = rooms
         /\ nleave' = nleave
    ELSE LET l == _leave(rooms, loc[ws][1], loc[ws][2], ws)
         IN /\ hpc' = [hpc EXCEPT ![ws] = IF l.raised THEN "crashed" ELSE "done"]
            /\ rooms' = l.rooms
            /\ nleave' = [nleave EXCEPT ![ws] = @ + 1]

\* lines 196-197, 264-266: ws.close() returns, break, final _leave
CloseReturns(ws) ==
    /\ hpc[ws] = "closing"
    /\ FinalLeave(ws)
    /\ UNCHANGED <<loc, closed, out, frames, pend, js, pub, sd, nclose, wsexc>>

\* faulty variant of RecvStream: the filter is not written before the
\* handler goes to the database
RecvStream_CommitLater(ws, key, rtypeid) ==
    /\ CanReceive(ws)
    /\ frames' = frames + 1
    /\ js' = [js EXCEPT ![ws] = Request("RQST_STREAM", key, rtypeid)]
    /\ loc' = [loc EXCEPT ![ws] = key]
    /\ rooms' = rooms
    /\ IF _change_stream(rooms, key[1], key[2], ws, rtypeid).result
       THEN /\ hpc' = [hpc EXCEPT ![ws] = "db"]
            /\ pend' = [pend EXCEPT ![ws] = "RQST_STREAM"]
            /\ out' = out
       ELSE /\ out' = Send(ws, [cmd |-> "RESP_ERROR", error |-> "stream"])
            /\ UNCHANGED <<hpc, pend>>
    /\ UNCHANGED <<closed, pub, sd, nclose, nleave, wsexc>>

\* lines 199-204 and 220-224: _change_stream; a non-member is answered at
\* once, a member's handler goes on to the database query
RecvStream(ws, key, rtypeid) ==
    /\ CanReceive(ws)
    /\ frames' = frames + 1
    /\ js' = [js EXCEPT ![ws] = Request("RQST_STREAM", key, rtypeid)]
    /\ loc' = [loc EXCEPT ![ws] = key]
    /\ LET c == _change_stream(rooms, key[1], key[2], ws, rtypeid)
       IN /\ rooms' = c.rooms
          /\ IF c.result
             THEN /\ hpc' = [hpc EXCEPT ![ws] = "db"]
                  /\ pend' = [pend EXCEPT ![ws] = "RQST_STREAM"]
                  /\ out' = out
             ELSE /\ out' = Send(ws, [cmd |-> "RESP_ERROR", error |-> "stream"])
                  /\ UNCHANGED <<hpc, pend>>
    /\ UNCHANGED <<closed, pub, sd, nclose, nleave, wsexc>>

\* lines 226-236 and 242-251: the handler goes to the database
RecvQuery(ws, key, cmd) ==
    /\ CanReceive(ws)
    /\ frames' = frames + 1
    /\ js' = [js EXCEPT ![ws] = Request(cmd, key, 0)]
    /\ loc' = [loc EXCEPT ![ws] = key]
    /\ hpc' = [hpc EXCEPT ![ws] = "db"]
    /\ pend' = [pend EXCEPT ![ws] = cmd]
    /\ UNCHANGED <<rooms, closed, out, pub, sd, nclose, nleave, wsexc>>

\* the cmd of the frame that answers a database command
DbResponse(cmd, ok) ==
    CASE cmd = "RQST_STREAM" -> IF ok THEN "RESP_STREAM" ELSE "RESP_ERROR"
      [] cmd = "RQST_SENSOR_STATS" ->
            IF ok THEN "RESP_SENSOR_STATS" ELSE "RESP_STATS_ERROR"
      [] cmd = "RQST_DOWNLOAD" ->
            IF ok THEN "RESP_DOWNLOAD" ELSE "RESP_DOWNLOAD_ERROR"

\* lines 209-224, 234-241, 248-257: the query returns or raises and the
\* response is sent; the send raises when the socket was closed meanwhile
DbReturns(ws, ok) ==
    /\ hpc[ws] = "db"
    /\ pend' = [pend EXCEPT ![ws] = IF ok THEN "returned" ELSE "DBError"]
    /\ IF SendFails(ws)
       THEN /\ hpc' = [hpc EXCEPT ![ws] = "crashed"]
            /\ out' = out
       ELSE /\ hpc' = [hpc EXCEPT ![ws] = "recv"]
            /\ out' = Send(ws, [cmd |-> DbResponse(pend[ws], ok)])
    /\ UNCHANGED <<rooms, loc, closed, frames, js, pub, sd, nclose, nleave, wsexc>>

\* line 159 and 264: the client goes away (close frame, or end of stream,
\* on which the transport marks the socket closed); the loop ends
Disconnect(ws, eof) ==
    /\ hpc[ws] = "recv"
    /\ ~closed[ws]
    /\ closed' = [closed EXCEPT ![ws] = eof]
    /\ FinalLeave(ws)
    /\ UNCHANGED <<loc, out, frames, pend, js, pub, sd, nclose, wsexc>>

\* line 159 and 264: the socket was closed by the shutdown handler; the
\* loop ends
RecvClosing(ws) ==
    /\ hpc[ws] = "recv"
    /\ closed[ws]
    /\ FinalLeave(ws)
    /\ UNCHANGED <<loc, closed, out, frames, pend, js, pub, sd, nclose, wsexc>>

\* lines 258-262: an ERROR message; resp["cmd"] of the empty dict raises
\* KeyError, nothing is sent and the handler ends by the exception
RecvError(ws) ==
    /\ hpc[ws] = "recv"
    /\ ~closed[ws]
    /\ closed' = [closed EXCEPT ![ws] = TRUE]
    /\ hpc' = [hpc EXCEPT ![ws] = "crashed"]
    /\ wsexc' = [wsexc EXCEPT ![ws] = TRUE]
    /\ UNCHANGED <<rooms, loc, out, frames, pend, js, pub, sd, nclose, nleave>>

\* --------------------------------------------------------------- message
\* faulty variant of NextMatch: the loop sends to every entry, whatever
\* its filter
NextMatch_AnyType(d, pos, rtypeid) ==
    IF pos + 1 > Len(d) THEN 0 ELSE pos + 1

\* line 140-141: from position pos on, the first entry whose rtype is the
\* reading's (entries in between are skipped without an await), 0 if none
NextMatch(d, pos, rtypeid) ==
    LET S == {i \in (pos + 1)..Len(d) : d[i].rtype = rtypeid}
    IN IF S = {} THEN 0 ELSE CHOOSE i \in S : \A j \in S : i <= j

\* the place of call p of message() in the order of the calls
PubSeq(p) ==
    IF pub[p].pc = "idle"
    THEN Cardinality({q \in PubIds : pub[q].pc # "idle"}) + 1
    ELSE pub[p].seq

\* lines 140-142: the loop runs up to its next send_str; the send raises
\* out of message() when it fails, else message() is suspended in it
PubAdvance(p, key, it, rtypeid) ==
    LET d == IterDict(rooms, it)
        i == NextMatch(d, it.pos, rtypeid)
    IN IF i = 0
       THEN /\ pub' = [pub EXCEPT ![p] = [pc |-> "done", seq |-> PubSeq(p), key |-> key,
                                          rtypeid |-> rtypeid,
                                          ws |-> 0, err |-> "none", it |-> NoIter]]
            /\ out' = out
       ELSE IF SendFails(d[i].ws)
       THEN /\ pub' = [pub EXCEPT ![p] = [pc |-> "raised", seq |-> PubSeq(p), key |-> key,
                                          rtypeid |-> rtypeid,
                                          ws |-> d[i].ws,
                                          err |-> "ConnectionResetError",
                                          it |-> NoIter]]
            /\ out' = out
       ELSE /\ pub' = [pub EXCEPT ![p] = [pc |-> "send", seq |-> PubSeq(p), key |-> key,
                                          rtypeid |-> rtypeid,
                                          ws |-> d[i].ws, err |-> "none",
                                          it |-> [it EXCEPT !.pos = i]]]
            /\ out' = Send(d[i].ws, [cmd |-> "RESP_READING",
                                     rtypeid |-> rtypeid, pid |-> p])

\* faulty variant of Publish: reading rooms[(groupid, sensorid)] of a room
\* that does not exist creates it
Publish_CreatesRoom(p, key, rtypeid) ==
    /\ pub[p].pc = "idle"
    /\ IF ~_does_room_exist(rooms, key[1], key[2])
       THEN /\ pub' = [pub EXCEPT ![p] = [pc |-> "done", seq |-> PubSeq(p), key |-> key,
                                          rtypeid |-> rtypeid,
                                          ws |-> 0, err |-> "none", it |-> NoIter]]
            /\ out' = out
            /\ rooms' = SetRoom(rooms, key, <<>>)
       ELSE /\ PubAdvance(p, key, NewIter(rooms, key, 0), rtypeid)
            /\ rooms' = rooms
    /\ UNCHANGED <<hpc, loc, closed, frames, pend, js, sd, nclose, nleave, wsexc>>

\* lines 111-142: message(rooms, groupid, sensorid, msg) is called
Publish(p, key, rtypeid) ==
    /\ pub[p].pc = "idle"
    /\ IF ~_does_room_exist(rooms, key[1], key[2])
       THEN /\ pub' = [pub EXCEPT ![p] = [pc |-> "done", seq |-> PubSeq(p), key |-> key,
                                          rtypeid |-> rtypeid,
                                          ws |-> 0, err |-> "none", it |-> NoIter]]
            /\ out' = out
       ELSE PubAdvance(p, key, NewIter(rooms, key, 0), rtypeid)
    /\ UNCHANGED <<rooms, hpc, loc, closed, frames, pend, js, sd, nclose, nleave, wsexc>>

\* lines 140-142: send_str returns and the for loop asks its iterator for
\* the next entry
PublishResume(p) ==
    /\ pub[p].pc = "send"
    /\ IF Len(IterDict(rooms, pub[p].it)) # pub[p].it.used
       THEN /\ pub' = [pub EXCEPT ![p] = [pc |-> "raised", seq |-> pub[p].seq,
                                          key |-> pub[p].key,
                                          rtypeid |-> pub[p].rtypeid,
                                          ws |-> pub[p].ws,
                                          err |-> "RuntimeError",
                                          it |-> NoIter]]
            /\ out' = out
       ELSE PubAdvance(p, pub[p].key, pub[p].it, pub[p].rtypeid)
    /\ UNCHANGED <<rooms, hpc, loc, closed, frames, pend, js, sd, nclose, nleave, wsexc>>

\* ----------------------------------------------- socket_shutdown_handler
\* faulty variant of ShutScan: the test of ws.closed is left out
RECURSIVE ShutScan_NoClosedTest(_, _, _, _)
ShutScan_NoClosedTest(rs, cl, o, i) ==
    IF o > Len(rs) THEN [found |-> FALSE, o |-> 0, i |-> 0]
    ELSE IF i + 1 > Len(rs[o].d) THEN ShutScan_NoClosedTest(rs, cl, o + 1, 0)
    ELSE [found |-> TRUE, o |-> o, i |-> i + 1]

\* lines 277-279: from room o, inner position i, the next socket that is
\* not closed; the rooms and their dicts are read as they are now
RECURSIVE ShutScan(_, _, _, _)
ShutScan(rs, cl, o, i) ==
    IF o > Len(rs) THEN [found |-> FALSE, o |-> 0, i |-> 0]
    ELSE IF i + 1 > Len(rs[o].d) THEN ShutScan(rs, cl, o + 1, 0)
    ELSE IF ~cl[rs[o].d[i + 1].ws] THEN [found |-> TRUE, o |-> o, i |-> i + 1]
    ELSE ShutScan(rs, cl, o, i + 1)

\* the next socket that is not closed in the rest of the inner iteration
NextOpen(d, pos, cl) ==
    LET S == {i \in (pos + 1)..Len(d) : ~cl[d[i].ws]}
    IN IF S = {} THEN 0 ELSE CHOOSE i \in S : \A j \in S : i <= j

\* lines 279-282: ws.close(code=GOING_AWAY) on socket ws; the handler is
\* suspended in it
ShutClose(ws, opos, it) ==
    /\ closed' = [closed EXCEPT ![ws] = TRUE]
    /\ nclose' = [nclose EXCEPT ![ws] = @ + 1]
    /\ sd' = [sd EXCEPT !.pc = "closing", !.opos = opos, !.it = it]

ShutFinish(pc, err) ==
    /\ sd' = [sd EXCEPT !.pc = pc, !.err = err, !.it = NoIter]
    /\ UNCHANGED <<closed, nclose>>

\* line 277: the outer loop takes its next room; lines 278-279 follow
ShutOuter(opos) ==
    LET r == ShutScan(rooms, closed, opos + 1, 0)
    IN IF ~r.found THEN ShutFinish("done", "none")
       ELSE ShutClose(rooms[r.o].d[r.i].ws, r.o,
                      NewIter(rooms, rooms[r.o].key, r.i))

\* the sockets that are open and in some room
OpenMembers(rs, cl) ==
    {w \in Sessions : ~cl[w] /\ \E i \in 1..Len(rs) : IndexOfWs(rs[i].d, w, 1) # 0}

\* lines 269-282: the application shuts down; the outer iterator is made
Shutdown ==
    /\ sd.pc = "idle"
    /\ LET s == ShutScan(rooms, closed, 1, 0)
           w == rooms[s.o].d[s.i].ws
       IN IF ~s.found
          THEN /\ sd' = [sd EXCEPT !.pc = "done", !.oused = Len(rooms),
                                   !.atstart = OpenMembers(rooms, closed)]
               /\ UNCHANGED <<closed, nclose>>
          ELSE /\ closed' = [closed EXCEPT ![w] = TRUE]
               /\ nclose' = [nclose EXCEPT ![w] = @ + 1]
               /\ sd' = [sd EXCEPT !.pc = "closing", !.oused = Len(rooms),
                                   !.atstart = OpenMembers(rooms, closed),
                                   !.opos = s.o,
                                   !.it = NewIter(rooms, rooms[s.o].key, s.i)]
    /\ UNCHANGED <<rooms, hpc, loc, out, frames, pend, js, pub, nleave, wsexc>>

\* lines 277-282: ws.close() returns; the inner loop asks its iterator for
\* the next socket, and when it is exhausted the outer loop asks its own
ShutdownResume ==
    /\ sd.pc = "closing"
    /\ LET d == IterDict(rooms, sd.it)
           i == NextOpen(d, sd.it.pos, closed)
       IN IF Len(d) # sd.it.used
          THEN ShutFinish("raised", "RuntimeError")
          ELSE IF i # 0
          THEN ShutClose(d[i].ws, sd.opos, [sd.it EXCEPT !.pos = i])
          ELSE IF Len(rooms) # sd.oused
          THEN ShutFinish("raised", "RuntimeError")
          ELSE ShutOuter(sd.opos)
    /\ UNCHANGED <<rooms, hpc, loc, out, frames, pend, js, pub, nleave, wsexc>>

\* ------------------------------------------------------------------ spec
Next ==
    \/ \E ws \in Sessions : Connect(ws)
    \/ \E ws \in Sessions, why \in {"json", "verify"} : RecvMalformed(ws, why)
    \/ \E ws \in Sessions, key \in RoomKeys : RecvJoin(ws, key)
    \/ \E ws \in Sessions, key \in RoomKeys : RecvClose(ws, key)
    \/ \E ws \in Sessions : CloseReturns(ws)
    \/ \E ws \in Sessions, key \in RoomKeys, t \in StreamTypes : RecvStream(ws, key, t)
    \/ \E ws \in Sessions, key \in RoomKeys,
          cmd \in {"RQST_SENSOR_STATS", "RQST_DOWNLOAD"} : RecvQuery(ws, key, cmd)
    \/ \E ws \in Sessions, ok \in BOOLEAN : DbReturns(ws, ok)
    \/ \E ws \in Sessions, eof \in BOOLEAN : Disconnect(ws, eof)
    \/ \E ws \in Sessions : RecvClosing(ws)
    \/ \E ws \in Sessions : RecvError(ws)
    \/ \E p \in Pubs, key \in RoomKeys, t \in RTypes : Publish(p, key, t)
    \/ \E p \in Pubs : PublishResume(p)
    \/ Shutdown
    \/ ShutdownResume

Spec == Init /\ [][Next]_vars

\* the same handlers with two calls of message() that can overlap, and
\* fewer frames taken in all
NextOrder ==
    \/ \E ws \in Sessions : Connect(ws)
    \/ \E ws \in Sessions, why \in {"json", "verify"} :
          RecvMalformed(ws, why) /\ frames' <= MaxOrderFrames
    \/ \E ws \in Sessions, key \in RoomKeys :
          RecvJoin(ws, key) /\ frames' <= MaxOrderFrames
    \/ \E ws \in Sessions, key \in RoomKeys :
          RecvClose(ws, key) /\ frames' <= MaxOrderFrames
    \/ \E ws \in Sessions : CloseReturns(ws)
    \/ \E ws \in Sessions, key \in RoomKeys, t \in StreamTypes :
          RecvStream(ws, key, t) /\ frames' <= MaxOrderFrames
    \/ \E ws \in Sessions, key \in RoomKeys,
          cmd \in {"RQST_SENSOR_STATS", "RQST_DOWNLOAD"} :
          RecvQuery(ws, key, cmd) /\ frames' <= MaxOrderFrames
    \/ \E ws \in Sessions, ok \in BOOLEAN : DbReturns(ws, ok)
    \/ \E ws \in Sessions, eof \in BOOLEAN : Disconnect(ws, eof)
    \/ \E ws \in Sessions : RecvClosing(ws)
    \/ \E ws \in Sessions : RecvError(ws)
    \/ \E p \in OverlapPubs, key \in RoomKeys, t \in RTypes : Publish(p, key, t)
    \/ \E p \in OverlapPubs : PublishResume(p)
    \/ Shutdown
    \/ ShutdownResume

SpecOrder == Init /\ [][NextOrder]_vars

\* ---------------------------------------------------------------- claims
Last(q) == q[Len(q)]

\* the sockets of a dict, in its order
Sockets(d) == [i \in 1..Len(d) |-> d[i].ws]

\* the members of room key, none when the room does not exist
Members(rs, key) ==
    IF IndexOfKey(rs, key, 1) = 0 THEN {}
    ELSE {RoomDict(rs, key)[i].ws : i \in 1..Len(RoomDict(rs, key))}

FilterOf(rs, key, ws) ==
    RoomDict(rs, key)[IndexOfWs(RoomDict(rs, key), ws, 1)].rtype

\* this step is ws_handler of session w taking a TEXT frame
TookFrame(w) ==
    /\ frames' = frames + 1
    /\ out'[w] # out[w] \/ hpc'[w] # hpc[w]

\* C1: whenever a session's ws_handler has returned, the session is a
\* member of no room.
C1_NoMembershipAfterHandler ==
    \A w \in Sessions : hpc[w] = "done" => MemberOf(rooms, w) = {}

\* C2: the sessions whose latest request joined room k, and which have not
\* left since, are all entries of room k: N joins give N entries.
C2_NoLostJoin ==
    \A k \in RoomKeys :
        {w \in Sessions : hpc[w] = "recv" /\ js[w] = Request("RQST_JOIN", k, 0)}
            \subseteq Members(rooms, k)

\* C3: a join by a session that is already a member of the room returns
\* true and leaves the room's mapping (members and filters) as it was.
C3_JoinIdempotent ==
    [][\A w \in Sessions, k \in RoomKeys :
          (TookFrame(w) /\ js'[w] = Request("RQST_JOIN", k, 0) /\ InRoom(rooms, k, w))
          => /\ Last(out'[w]) = [cmd |-> "RESP_JOIN", join_status |-> TRUE]
             /\ RoomDict(rooms', k) = RoomDict(rooms, k)]_vars

\* C1 .. C3 are above.

\* this step is the call of message() number p
PublishStarts(p) == pub[p].pc = "idle" /\ pub'[p].pc # "idle"

Reading(p) == [cmd |-> "RESP_READING", rtypeid |-> pub'[p].rtypeid, pid |-> p]

\* C4: a publish of a reading of type T to room (g, s) calls send_str for a
\* session if and only if the session is a member of the room with filter
\* T; the frame written is RESP_READING with the reading, no other session
\* gets a frame, and no later step of the publish sends to anyone who is
\* not such a member.
C4_PublishRoutesByFilter ==
    [][\A p \in Pubs, w \in Sessions :
          /\ PublishStarts(p) =>
                /\ (pub'[p].ws = w) <=>
                       (/\ InRoom(rooms, pub'[p].key, w)
                        /\ FilterOf(rooms, pub'[p].key, w) = pub'[p].rtypeid)
                /\ out'[w] = IF pub'[p].ws = w /\ ~SendFails(w)
                             THEN Append(out[w], Reading(p))
                             ELSE out[w]
          /\ (out'[w] # out[w] /\ Last(out'[w]) = Reading(p)) =>
                /\ InRoom(rooms, pub'[p].key, w)
                /\ FilterOf(rooms, pub'[p].key, w) = pub'[p].rtypeid]_vars

\* C4 witness: a member that changed its stream to 3 has just been sent a
\* reading of type 3
C4_Witness ==
    \E p \in Pubs, w \in Sessions :
        /\ pub[p].pc = "send" /\ pub[p].ws = w /\ pub[p].rtypeid = 3
        /\ js[w].cmd = "RQST_STREAM" /\ js[w].rtypeid = 3
        /\ Len(out[w]) > 0
        /\ Last(out[w]) = [cmd |-> "RESP_READING", rtypeid |-> 3, pid |-> p]

\* C5: a send that fails during a publish does not make the publish raise.
C5_FailedSendNotFatal ==
    \A p \in Pubs : ~(pub[p].pc = "raised" /\ pub[p].err = "ConnectionResetError")

\* C6: the shutdown handler runs to completion, and when it has, every
\* session that was an open member of a room at its start has been closed
\* by it exactly once.
C6_ShutdownClosesAllOnce ==
    /\ sd.pc # "raised"
    /\ sd.pc = "done" => \A w \in sd.atstart : nclose[w] = 1

\* C7: while a publish is suspended in a send, the collection of sessions
\* it iterates is not changed by a join or a leave.
C7_PublishIteratesSnapshot ==
    [][\A p \in Pubs :
          (pub[p].pc = "send" /\ pub'[p].pc = "send")
          => Sockets(IterDict(rooms', pub'[p].it)) = Sockets(IterDict(rooms, pub[p].it))]_vars

\* C8: a leave for a room that does not exist, or that the session is not
\* in, raises nothing and leaves the registry unchanged: in RQST_CLOSE, in
\* the final leave of a handler, and in the second of the two leaves that
\* RQST_CLOSE runs for the same room and session.
C8_LeaveNonMemberIsNoop ==
    [][\A w \in Sessions :
          /\ (/\ TookFrame(w) /\ js'[w].cmd = "RQST_CLOSE"
              /\ ~InRoom(rooms, js'[w].key, w))
             => (rooms' = rooms /\ hpc'[w] = "closing")
          /\ (/\ hpc[w] = "recv" /\ hpc'[w] # "recv" /\ frames' = frames
              /\ closed'[w] = closed[w] /\ loc[w] # Unbound
              /\ ~InRoom(rooms, loc[w], w))
             => (rooms' = rooms /\ hpc'[w] = "done")
          /\ (hpc[w] = "closing" /\ hpc'[w] # "closing")
             => (rooms' = rooms /\ hpc'[w] = "done" /\ ~InRoom(rooms, loc[w], w))]_vars

\* C8 witness: RQST_CLOSE for a room the session never joined, while another
\* session is in that room, and the handler has run its second leave
C8_Witness ==
    \E w \in Sessions :
        /\ hpc[w] = "done" /\ js[w].cmd = "RQST_CLOSE" /\ out[w] = <<>>
        /\ Members(rooms, js[w].key) # {}

\* C9: RQST_STREAM from a session that is not a member of the room changes
\* nothing in the registry and is answered with RESP_ERROR, and the handler
\* goes on waiting for frames.
C9_StreamNonMember ==
    [][\A w \in Sessions :
          (/\ TookFrame(w) /\ js'[w].cmd = "RQST_STREAM"
           /\ ~InRoom(rooms, js'[w].key, w))
          => /\ rooms' = rooms
             /\ out'[w] = Append(out[w], [cmd |-> "RESP_ERROR", error |-> "stream"])
             /\ hpc'[w] = "recv"]_vars

\* C9 witness: a non-member's RQST_STREAM for an existing room was answered
\* with RESP_ERROR and the handler waits for the next frame
C9_Witness ==
    \E w \in Sessions :
        /\ js[w].cmd = "RQST_STREAM" /\ hpc[w] = "recv"
        /\ Members(rooms, js[w].key) # {} /\ ~InRoom(rooms, js[w].key, w)
        /\ Len(out[w]) > 0
        /\ Last(out[w]) = [cmd |-> "RESP_ERROR", error |-> "stream"]

\* C10: a TEXT frame that is not JSON, or that fails verification, gets
\* exactly one RESP_ERROR frame on its own session, changes neither the
\* registry nor any other session, and the handler goes on waiting.
C10_MalformedFrame ==
    [][\A w \in Sessions :
          (TookFrame(w) /\ js'[w].cmd \in {"", "<rejected>"})
          => /\ rooms' = rooms
             /\ Len(out'[w]) = Len(out[w]) + 1
             /\ Last(out'[w]).cmd = "RESP_ERROR"
             /\ \A v \in Sessions \ {w} : out'[v] = out[v]
             /\ hpc'[w] = "recv" /\ closed' = closed]_vars

\* C10 witness: after a malformed frame the same session's next frame, a
\* join, was processed and answered
C10_Witness ==
    \E w \in Sessions :
        /\ Len(out[w]) = 2
        /\ out[w][1].cmd = "RESP_ERROR" /\ out[w][1].error \in {"json", "verify"}
        /\ out[w][2] = [cmd |-> "RESP_JOIN", join_status |-> TRUE]
        /\ MemberOf(rooms, w) # {}

\* C11: when the receive loop of a session that never named a room ends
\* (the client went away, or the socket was closed under it), ws_handler
\* returns without raising and the registry is unchanged.
C11_CleanupWithoutRoom ==
    [][\A w \in Sessions :
          (/\ hpc[w] = "recv" /\ hpc'[w] # "recv" /\ frames' = frames
           /\ closed'[w] = closed[w] /\ loc[w] = Unbound)
          => (hpc'[w] = "done" /\ rooms' = rooms)]_vars

\* C12: every session is a member of at most one room.
C12_AtMostOneRoom ==
    \A w \in Sessions : Cardinality(MemberOf(rooms, w)) <= 1

\* the session whose sends never complete
SlowSession == NumSessions

\* the sessions join first and the reading is published afterwards
NextLive ==
    \/ \E ws \in Sessions : Connect(ws)
    \/ \E ws \in Sessions, why \in {"json", "verify"} :
          RecvMalformed(ws, why) /\ frames' <= MaxOrderFrames
    \/ \E ws \in Sessions, key \in RoomKeys :
          /\ \A p \in Pubs : pub[p].pc = "idle"
          /\ RecvJoin(ws, key) /\ frames' <= MaxOrderFrames
    \/ \E ws \in Sessions, key \in RoomKeys :
          RecvClose(ws, key) /\ frames' <= MaxOrderFrames
    \/ \E ws \in Sessions : CloseReturns(ws)
    \/ \E ws \in Sessions, key \in RoomKeys, t \in StreamTypes :
          RecvStream(ws, key, t) /\ frames' <= MaxOrderFrames
    \/ \E ws \in Sessions, key \in RoomKeys,
          cmd \in {"RQST_SENSOR_STATS", "RQST_DOWNLOAD"} :
          RecvQuery(ws, key, cmd) /\ frames' <= MaxOrderFrames
    \/ \E ws \in Sessions, ok \in BOOLEAN : DbReturns(ws, ok)
    \/ \E ws \in Sessions, eof \in BOOLEAN : Disconnect(ws, eof)
    \/ \E ws \in Sessions : RecvClosing(ws)
    \/ \E ws \in Sessions : RecvError(ws)
    \/ \E p \in Pubs, key \in RoomKeys, t \in RTypes : Publish(p, key, t)
    \/ \E p \in Pubs : PublishResume(p)
    \/ Shutdown
    \/ ShutdownResume

\* the event loop resumes every coroutine whose await has completed: a
\* database query returns or raises, ws.close() returns, a closed socket
\* ends its receive loop, and send_str returns except to the slow session.
\* What the clients send, and when, is theirs to choose.
LiveFairness ==
    /\ \A ws \in Sessions : WF_vars(\E ok \in BOOLEAN : DbReturns(ws, ok))
    /\ \A ws \in Sessions : WF_vars(CloseReturns(ws))
    /\ \A ws \in Sessions : WF_vars(RecvClosing(ws))
    /\ WF_vars(ShutdownResume)
    /\ \A p \in Pubs : WF_vars(PublishResume(p) /\ pub[p].ws # SlowSession)

SpecLive == Init /\ [][NextLive]_vars /\ LiveFairness

\* session w asked last to join room k and waits for frames: to its client
\* it is a session of room k, with the filter 0 a join gives
Listening(w, k) ==
    /\ hpc[w] = "recv" /\ ~closed[w]
    /\ js[w] = Request("RQST_JOIN", k, 0)

HasReading(w, p) ==
    \E i \in 1..Len(out[w]) :
        out[w][i].cmd = "RESP_READING" /\ out[w][i].pid = p

IsReadingOf(f, key) ==
    /\ f.cmd = "RESP_READING"
    /\ pub[f.pid].key = key

\* C13: of two readings published to one room, every session that receives
\* both receives first the one whose message() call was made first, also
\* when the calls overlap.
C13_DeliveryInPublishOrder ==
    \A w \in Sessions, k \in RoomKeys :
        \A i, j \in 1..Len(out[w]) :
            (i < j /\ IsReadingOf(out[w][i], k) /\ IsReadingOf(out[w][j], k))
                => pub[out[w][i].pid].seq < pub[out[w][j].pid].seq

\* session w holds both readings of one room while the earlier call of
\* message() is still suspended in its send
C13_Witness ==
    \E w \in Sessions, p, q \in OverlapPubs :
        /\ pub[p].pc = "send" /\ pub[q].pc # "idle"
        /\ pub[p].seq < pub[q].seq
        /\ pub[p].key = pub[q].key
        /\ \E i, j \in 1..Len(out[w]) :
              /\ out[w][i].cmd = "RESP_READING" /\ out[w][i].pid = p
              /\ out[w][j].cmd = "RESP_READING" /\ out[w][j].pid = q

\* C15: when a session's ws_handler has returned, whatever ended it, the
\* handler has called _leave for the session exactly once.
C15_RemovalExactlyOnce ==
    \A w \in Sessions : hpc[w] = "done" => nleave[w] = 1

JoinOk == [cmd |-> "RESP_JOIN", join_status |-> TRUE]

\* C17: a valid RQST_JOIN for room (g, s) is answered with RESP_JOIN,
\* join_status true, whether or not the session was in the room; after it
\* the session is in the room, and one that was not in it has filter 0.
C17_JoinAnswered ==
    [][\A w \in Sessions :
          (/\ frames' = frames + 1 /\ out'[w] # out[w]
           /\ js'[w].cmd = "RQST_JOIN")
              => /\ out'[w] = Append(out[w], JoinOk)
                 /\ InRoom(rooms', js'[w].key, w)
                 /\ ~InRoom(rooms, js'[w].key, w)
                       => FilterOf(rooms', js'[w].key, w) = 0]_vars

\* a session joined the room it was already in and was answered again
C17_Witness ==
    \E w \in Sessions, k \in RoomKeys :
        /\ frames = 2 /\ out[w] = <<JoinOk, JoinOk>>
        /\ js[w] = Request("RQST_JOIN", k, 0)
        /\ MemberOf(rooms, w) = {k}
        /\ FilterOf(rooms, k, w) = 0

RoomExists(rs, k) == IndexOfKey(rs, k, 1) # 0

\* C18: a room key that is in the registry is in it after every step:
\* no join, leave, stream change, publish or shutdown removes a key.
C18_RoomKeysStay ==
    [][\A k \in RoomKeys : RoomExists(rooms, k) => RoomExists(rooms', k)]_vars

\* the only socket of a room has left and the room is there, empty
C18_Witness ==
    \E w \in Sessions, k \in RoomKeys :
        /\ hpc[w] = "done" /\ loc[w] = k /\ nleave[w] > 0
        /\ js[w] = Request("RQST_JOIN", k, 0)
        /\ RoomExists(rooms, k)
        /\ RoomDict(rooms, k) = <<>>

\* C19: the shutdown handler calls close only on a socket that is not
\* closed at that moment; a closed one is passed over.
C19_ShutdownSkipsClosed ==
    [][\A w \in Sessions : nclose'[w] > nclose[w] => ~closed[w]]_vars

\* the handler passed over the closed socket w in an earlier room and
\* closed socket v in a later one
C19_Witness ==
    \E w, v \in Sessions, a, b \in RoomKeys :
        /\ sd.pc = "done" /\ frames = 2
        /\ InRoom(rooms, a, w) /\ InRoom(rooms, b, v)
        /\ IndexOfKey(rooms, a, 1) < IndexOfKey(rooms, b, 1)
        /\ closed[w] /\ hpc[w] = "crashed" /\ nclose[w] = 0
        /\ nclose[v] = 1

\* the frame that answers a failed history fetch of RQST_STREAM
StreamError == [cmd |-> DbResponse("RQST_STREAM", FALSE)]

\* C20: in RQST_STREAM the filter is written before the history fetch:
\* when a member's handler goes to the database the room already holds
\* the new filter T; a fetch that fails leaves the registry as it is and
\* is answered RESP_ERROR; a type-T reading published to the room after
\* that answer is sent to the session.
C20_FilterCommittedBeforeFetch ==
    [][\A w \in Sessions :
          /\ (hpc[w] = "recv" /\ hpc'[w] = "db" /\ pend'[w] = "RQST_STREAM")
                => /\ InRoom(rooms', js'[w].key, w)
                   /\ FilterOf(rooms', js'[w].key, w) = js'[w].rtypeid
          /\ (hpc[w] = "db" /\ pend[w] = "RQST_STREAM" /\ pend'[w] = "DBError")
                => /\ rooms' = rooms
                   /\ out'[w] # out[w] => out'[w] = Append(out[w], StreamError)
          /\ \A p \in Pubs :
                (/\ PublishStarts(p) /\ ~SendFails(w)
                 /\ out[w] # <<>> /\ Last(out[w]) = StreamError
                 /\ js[w].cmd = "RQST_STREAM" /\ InRoom(rooms, js[w].key, w)
                 /\ pub'[p].key = js[w].key /\ pub'[p].rtypeid = js[w].rtypeid)
                    => out'[w] = Append(out[w], Reading(p))]_vars

\* a member's RQST_STREAM met a failure, and the reading of the new type
\* published afterwards reached it
C20_Witness ==
    \E w \in Sessions, p \in Pubs :
        /\ js[w].cmd = "RQST_STREAM"
        /\ out[w] = <<JoinOk, StreamError,
                      [cmd |-> "RESP_READING", rtypeid |-> js[w].rtypeid, pid |-> p]>>
        /\ pub[p].key = js[w].key

\* C21: every session that is in the dict of some room is an open session,
\* so message() never calls send_str on a closed one.
C21_MembersAreOpen ==
    \A w \in Sessions : MemberOf(rooms, w) # {} => ~closed[w]

\* every room other than R is the same in rs and rs2
RoomsSameExcept(rs, rs2, R) ==
    \A k \in RoomKeys \ {R} :
        /\ RoomExists(rs, k) = RoomExists(rs2, k)
        /\ RoomExists(rs, k) => RoomDict(rs, k) = RoomDict(rs2, k)

\* the entries of room R that are not session w's
EntriesExcept(rs, R, w) ==
    IF RoomExists(rs, R)
    THEN SelectSeq(RoomDict(rs, R), LAMBDA e : e.ws # w)
    ELSE <<>>

OthersSameIn(rs, rs2, R, w) ==
    /\ RoomExists(rs, R) = RoomExists(rs2, R)
    /\ EntriesExcept(rs, R, w) = EntriesExcept(rs2, R, w)

\* C22: the handler steps that run _join, _leave or _change_stream on room
\* R for session w leave every room other than R as it was; those that
\* run _leave or _change_stream also leave the entries of the other
\* sessions in room R as they were.
C22_RegistryFrame ==
    [][\A w \in Sessions :
          /\ (/\ frames' = frames + 1 /\ out'[w] # out[w]
              /\ js'[w].cmd = "RQST_JOIN")
                => RoomsSameExcept(rooms, rooms', js'[w].key)
          /\ (/\ frames' = frames + 1 /\ hpc[w] = "recv" /\ hpc'[w] # "recv"
              /\ js'[w].cmd = "RQST_CLOSE")
                => /\ RoomsSameExcept(rooms, rooms', js'[w].key)
                   /\ OthersSameIn(rooms, rooms', js'[w].key, w)
          /\ (/\ frames' = frames /\ hpc[w] \in {"recv", "closing"}
              /\ hpc'[w] \in {"done", "crashed"} /\ loc[w] # Unbound)
                => /\ RoomsSameExcept(rooms, rooms', loc[w])
                   /\ OthersSameIn(rooms, rooms', loc[w], w)
          /\ (/\ frames' = frames + 1 /\ hpc[w] = "recv"
              /\ hpc'[w] = "db" \/ out'[w] # out[w]
              /\ js'[w].cmd = "RQST_STREAM")
                => /\ RoomsSameExcept(rooms, rooms', js'[w].key)
                   /\ OthersSameIn(rooms, rooms', js'[w].key, w)]_vars

\* session w joined room b and changed its filter there while session v
\* sat in room a, which is as v's join left it
C22_Witness ==
    \E v, w \in Sessions, a, b \in RoomKeys :
        /\ v # w /\ a # b /\ frames = 3
        /\ RoomExists(rooms, a) /\ RoomExists(rooms, b)
        /\ RoomDict(rooms, a) = <<[ws |-> v, rtype |-> 0]>>
        /\ RoomDict(rooms, b) = <<[ws |-> w, rtype |-> 3]>>
        /\ js[w] = Request("RQST_STREAM", b, 3)

\* this step belongs to call p of message(): its call or a resumption
PublishStep(p) == pub'[p] # pub[p] /\ frames' = frames

\* C23: no step of message() changes the registry; a call for a room that
\* does not exist sends nothing and the room still does not exist.
C23_PublishKeepsRegistry ==
    [][\A p \in PubIds :
          /\ PublishStep(p) => rooms' = rooms
          /\ (PublishStarts(p) /\ ~RoomExists(rooms, pub'[p].key))
                => /\ out' = out
                   /\ ~RoomExists(rooms', pub'[p].key)
                   /\ pub'[p].pc = "done"]_vars

\* one call of message() was for a room that does not exist, another sent
\* its reading to the member of a room, whose entry is as it was
C23_Witness ==
    \E p, q \in OverlapPubs, w \in Sessions :
        /\ pub[p].pc = "done" /\ ~RoomExists(rooms, pub[p].key)
        /\ pub[q].pc # "idle" /\ RoomExists(rooms, pub[q].key)
        /\ RoomDict(rooms, pub[q].key) = <<[ws |-> w, rtype |-> pub[q].rtypeid]>>
        /\ HasReading(w, q)
        /\ ~HasReading(w, p)

\* C24: when an ERROR message comes, the handler sends the session one
\* frame with cmd RESP_WS_ERROR and does not end by an exception.
C24_ErrorMessageAnswered ==
    [][\A w \in Sessions :
          (~wsexc[w] /\ wsexc'[w])
              => /\ out'[w] = Append(out[w], [cmd |-> "RESP_WS_ERROR"])
                 /\ hpc'[w] # "crashed"]_vars

====
